---- MODULE Spec2Model ----
(***************************************************************************)
(* The stores of Findful: the Space hierarchy manager (class Spaces,       *)
(* SpaceConcept.ts), the location logs (class LocationLogs), the items     *)
(* (class Items) and the users (class Users).  The stores do not call each *)
(* other; each has its variables, its actions and its specification.       *)
(*                                                                         *)
(* A Space is a JavaScript object; the store keeps references to Space     *)
(* objects in the array `spaces`, and every Space refers to its parent     *)
(* and to its children by reference.  The model keeps the objects in a     *)
(* heap: a sequence of records, an object's reference being its index.     *)
(* An object stays in the heap after deleteSpace took it out of `spaces`:  *)
(* the caller still holds the reference and can pass it to any operation.  *)
(***************************************************************************)
EXTENDS Integers, Sequences, FiniteSets, TLC

\* Number of Space objects the model lets createSpace allocate.
MaxObjs == 3

\* Usernames of the owners, names and space types the callers choose from.
\* The class compares owners by owner.username only, so an owner is its
\* username here.
Users == {"hanna", "cat"}
Names == {"dresser", "drawer 1"}
SpaceTypes == {"cabinet"}

\* parent: Space | null
Null == 0

VARIABLES
    heap,    \* the Space objects ever created, by reference
    spaces,  \* Spaces.spaces: the references in the collection, in order
    last,    \* the observed call: operation, arguments, console.log line, return value
    pre      \* heap and spaces as they were when the observed call started

vars == <<heap, spaces, last, pre>>

\* The location log store (class LocationLogs), a store of its own: the
\* concepts do not call each other.
VARIABLES
    locationLogs,  \* LocationLogs.locationLogs
    lastLog,       \* the observed call of the log store
    preLog         \* locationLogs as it was when the observed call started

logVars == <<locationLogs, lastLog, preLog>>

\* The item store (class Items), with its Item objects in a heap of their
\* own: updateItemDetails writes to the object the caller passes.
VARIABLES
    itemHeap,  \* the Item objects ever created, by reference
    items,     \* Items.items: the references in the collection, in order
    lastItem,  \* the observed call of the item store
    preItem    \* itemHeap and items as they were when the observed call started

itemVars == <<itemHeap, items, lastItem, preItem>>

\* The user store (class Users).
VARIABLES
    users,     \* Users.users
    lastUser,  \* the observed call of the user store
    preUser    \* users as it was when the observed call started

userVars == <<users, lastUser, preUser>>

Refs == DOMAIN heap

----------------------------------------------------------------------------
(* Helpers: array operations used by the class.                            *)

\* Array.prototype.includes on an array of references
Includes(arr, x) == \E i \in 1..Len(arr) : arr[i] = x

\* The filter with its test reversed: (child) => child === space
WithoutKeeping(arr, x) == SelectSeq(arr, LAMBDA c : c = x)

\* arr.filter((child) => child !== space)
Without(arr, x) == SelectSeq(arr, LAMBDA c : c # x)

\* The object literal createSpace builds: children is left unset.
NewSpace(owner, name, spaceType, parent) ==
    [owner |-> owner, name |-> name, spaceType |-> spaceType,
     parent |-> parent, hasChildren |-> FALSE, children |-> <<>>]

\* for (const child of p.children) if (child.name == name) ...
ChildNameTaken(h, p, name) ==
    \E i \in 1..Len(h[p].children) : h[h[p].children[i]].name = name

\* The loop over this.spaces with the test of the parent reversed.
RootNameTakenWithParent(h, sp, owner, name) ==
    \E i \in 1..Len(sp) :
        /\ h[sp[i]].parent # Null
        /\ h[sp[i]].owner = owner
        /\ h[sp[i]].name = name

\* for (const space of this.spaces)
\*   if (space.parent == null && space.owner.username == owner.username
\*       && space.name == name) ...
RootNameTaken(h, sp, owner, name) ==
    \E i \in 1..Len(sp) :
        /\ h[sp[i]].parent = Null
        /\ h[sp[i]].owner = owner
        /\ h[sp[i]].name = name

\* createSpace without its first branch: the name is looked for among the
\* owner's roots, never among the children of parent.
CreateConflictRootsOnly(h, sp, owner, name, parent) ==
    RootNameTaken(h, sp, owner, name)

\* The uniqueness check of createSpace: `if (parent && parent.children)`
\* looks at the children of parent, every other case at the owner's roots.
CreateConflict(h, sp, owner, name, parent) ==
    IF parent # Null /\ h[parent].hasChildren
    THEN ChildNameTaken(h, parent, name)
    ELSE RootNameTaken(h, sp, owner, name)

\* renameSpace without its first branch.
RenameConflictRootsOnly(h, sp, owner, space, newName) ==
    RootNameTaken(h, sp, owner, newName)

\* The uniqueness check of renameSpace:
\* `if (space.parent && space.parent.children)`, else the owner's roots.
RenameConflict(h, sp, owner, space, newName) ==
    IF h[space].parent # Null /\ h[h[space].parent].hasChildren
    THEN ChildNameTaken(h, h[space].parent, newName)
    ELSE RootNameTaken(h, sp, owner, newName)

\* moveSpace comparing the children with newParent.name, not space.name.
MoveConflictByParentName(h, space, newParent) ==
    h[newParent].hasChildren /\ ChildNameTaken(h, newParent, h[newParent].name)

\* The uniqueness check of moveSpace: `if (newParent.children) for ...`
MoveConflict(h, space, newParent) ==
    h[newParent].hasChildren /\ ChildNameTaken(h, newParent, h[space].name)

\* The push inside the if: only a parent without array gets the child.
PushChildOnlyIfUnset(h, p, c) ==
    IF h[p].hasChildren THEN h
    ELSE [h EXCEPT ![p].hasChildren = TRUE, ![p].children = <<c>>]

\* if (!p.children) p.children = []; p.children.push(c);
PushChild(h, p, c) ==
    [h EXCEPT ![p].hasChildren = TRUE, ![p].children = Append(@, c)]

\* The space is left in the children of its previous parent.
DetachFromParentSkipped(h, s) == h

\* if (s.parent) if (s.parent.children)
\*     s.parent.children = s.parent.children.filter((child) => child !== s)
DetachFromParent(h, s) ==
    LET old == h[s].parent IN
    IF old # Null /\ h[old].hasChildren
    THEN [h EXCEPT ![old].children = Without(@, s)]
    ELSE h

\* The parent of newParent written for newParent.
SetParentToGrandparent(h, s, p) == [h EXCEPT ![s].parent = h[p].parent]

\* space.parent = newParent
SetParent(h, s, p) == [h EXCEPT ![s].parent = p]

\* moveSpace checking the owner of space only.
MoveNotOwnedSpaceOnly(h, owner, space, newParent) == h[space].owner # owner

\* space.owner.username !== owner.username ||
\* newParent.owner.username !== owner.username
MoveNotOwned(h, owner, space, newParent) ==
    h[space].owner # owner \/ h[newParent].owner # owner

\* The test against 1: a space with one child passes for empty.
HasChildrenMoreThanOne(h, s) == h[s].hasChildren /\ Len(h[s].children) > 1

\* The test without the length: an emptied array still counts as children.
HasChildrenArray(h, s) == h[s].hasChildren

\* space.children && space.children.length > 0
HasChildren(h, s) == h[s].hasChildren /\ Len(h[s].children) > 0

\* The name written to every space that had the old name.
SetNameByValue(h, s, newName) ==
    [o \in DOMAIN h |->
        IF h[o].name = h[s].name THEN [h[o] EXCEPT !.name = newName] ELSE h[o]]

\* The new name written to the wrong field.
SetTypeForName(h, s, newName) == [h EXCEPT ![s].spaceType = newName]

\* space.name = newName
SetName(h, s, newName) == [h EXCEPT ![s].name = newName]

----------------------------------------------------------------------------
(* The lines the class writes with console.log.                            *)

LogCreateExists == "space with name already exists"
LogMoveMissing == "space or newParent does not exist"
LogMoveOwner == "space or newParent does not belong to owner"
LogMoveExists == "space with name already exists among new parent's children"
LogMissing == "space does not exist"
LogOwner == "space does not belong to owner"
LogRenameChild == "cannot rename space: its parent already has a space with that name"
LogRenameRoot == "cannot rename space: a space with this name already exists"
LogDeleteNonEmpty == "cannot delete a non-empty space"
NoLog == ""

Call(op, owner, name, spaceType, space, target, log, ret) ==
    [op |-> op, owner |-> owner, name |-> name, spaceType |-> spaceType,
     space |-> space, target |-> target, log |-> log, ret |-> ret]

Snapshot == [heap |-> heap, spaces |-> spaces]

\* last and pre are history variables.  An observer records one call of a
\* run, any one, with the state it started from; the calls before it run
\* unrecorded.  Every call from every reachable state is recorded in some
\* run, so a predicate over pre, last and the current state speaks of
\* every call the program can make.
Observed(call) ==
    \/ last' = call /\ pre' = Snapshot
    \/ UNCHANGED <<last, pre>>

\* An early return: the line is logged and nothing is written.
Rejected(call) ==
    /\ Observed(call)
    /\ UNCHANGED <<heap, spaces>>

----------------------------------------------------------------------------
Init ==
    /\ heap = <<>>
    /\ spaces = <<>>
    /\ last = Call("new", "", "", "", Null, Null, NoLog, Null)
    /\ pre = [heap |-> <<>>, spaces |-> <<>>]
    /\ locationLogs = <<>>
    /\ lastLog = [op |-> "new", item |-> [owner |-> "", name |-> ""],
                  space |-> [owner |-> "", name |-> "", parent |-> ""],
                  lines |-> <<>>, returned |-> FALSE]
    /\ preLog = <<>>
    /\ itemHeap = <<>>
    /\ items = <<>>
    /\ lastItem = [op |-> "new", owner |-> "", item |-> Null, name |-> "",
                   description |-> "", category |-> "", lines |-> <<>>,
                   ret |-> Null]
    /\ preItem = [itemHeap |-> <<>>, items |-> <<>>]
    /\ users = <<>>
    /\ lastUser = [op |-> "new", username |-> "", password |-> "",
                   line |-> "", returned |-> FALSE]
    /\ preUser = <<>>

createSpace(owner, name, spaceType, parent) ==
    IF CreateConflict(heap, spaces, owner, name, parent)
    THEN Rejected(Call("createSpace", owner, name, spaceType, Null, parent,
                       LogCreateExists, Null))
    ELSE /\ Len(heap) < MaxObjs
         /\ LET space == Len(heap) + 1
                h1 == Append(heap, NewSpace(owner, name, spaceType, parent))
            IN  /\ heap' = IF parent # Null THEN PushChild(h1, parent, space) ELSE h1
                /\ spaces' = Append(spaces, space)
                /\ Observed(Call("createSpace", owner, name, spaceType, Null,
                                 parent, NoLog, space))

moveSpace(owner, space, newParent) ==
    LET call(log) == Call("moveSpace", owner, "", "", space, newParent, log, Null) IN
    IF ~Includes(spaces, space) \/ ~Includes(spaces, newParent)
    THEN Rejected(call(LogMoveMissing))
    ELSE IF MoveNotOwned(heap, owner, space, newParent)
    THEN Rejected(call(LogMoveOwner))
    ELSE IF MoveConflict(heap, space, newParent)
    THEN Rejected(call(LogMoveExists))
    ELSE /\ heap' = SetParent(PushChild(DetachFromParent(heap, space),
                                       newParent, space),
                             space, newParent)
         /\ UNCHANGED spaces
         /\ Observed(call(NoLog))

renameSpace(owner, space, newName) ==
    LET call(log) == Call("renameSpace", owner, newName, "", space, Null, log, Null) IN
    IF ~Includes(spaces, space)
    THEN Rejected(call(LogMissing))
    ELSE IF heap[space].owner # owner
    THEN Rejected(call(LogOwner))
    ELSE IF RenameConflict(heap, spaces, owner, space, newName)
    THEN Rejected(call(IF heap[space].parent # Null
                          /\ heap[heap[space].parent].hasChildren
                       THEN LogRenameChild ELSE LogRenameRoot))
    ELSE /\ heap' = SetName(heap, space, newName)
         /\ UNCHANGED spaces
         /\ Observed(call(NoLog))

deleteSpace(owner, space) ==
    LET call(log) == Call("deleteSpace", owner, "", "", space, Null, log, Null) IN
    IF ~Includes(spaces, space)
    THEN Rejected(call(LogMissing))
    ELSE IF heap[space].owner # owner
    THEN Rejected(call(LogOwner))
    ELSE IF HasChildren(heap, space)
    THEN Rejected(call(LogDeleteNonEmpty))
    ELSE /\ heap' = DetachFromParent(heap, space)
         /\ spaces' = Without(spaces, space)
         /\ Observed(call(NoLog))

\* No call has been recorded yet.
Unobserved == last.op = "new"

Next ==
    \/ \E owner \in Users, name \in Names, spaceType \in SpaceTypes,
          parent \in Refs \cup {Null} :
            /\ Unobserved /\ createSpace(owner, name, spaceType, parent)
            /\ UNCHANGED <<logVars, itemVars, userVars>>
    \/ \E owner \in Users, space \in Refs, newParent \in Refs :
            /\ Unobserved /\ moveSpace(owner, space, newParent)
            /\ UNCHANGED <<logVars, itemVars, userVars>>
    \/ \E owner \in Users, space \in Refs, newName \in Names :
            /\ Unobserved /\ renameSpace(owner, space, newName)
            /\ UNCHANGED <<logVars, itemVars, userVars>>
    \/ \E owner \in Users, space \in Refs :
            /\ Unobserved /\ deleteSpace(owner, space)
            /\ UNCHANGED <<logVars, itemVars, userVars>>

Spec == Init /\ [][Next]_vars

----------------------------------------------------------------------------
(* The location log store (class LocationLogs).                            *)
(*                                                                         *)
(* A log holds an item, the space the item is in and the spaces it has     *)
(* been in.  The class reads two fields of an item and of a space,         *)
(* owner.username and name, and they are given by the caller.  An item is  *)
(* the pair of these here: the item store keeps the names of an owner      *)
(* apart.  A space carries its parent too: the space store gives one name  *)
(* to spaces of one owner under different parents, and these are different *)
(* Space objects.  A name that is falsy (the empty string) makes `!x.name` *)
(* true.                                                                   *)

\* Number of spaces the model lets a locationHistory hold.
MaxHistory == 3

\* Number of logs the model lets the store hold; the items below need two.
MaxLogs == 3

ItemNames == {"", "cat sweater"}

LogItems == [owner : Users, name : ItemNames]

\* A Space as the log store holds it: owner, name, and the name of its
\* parent ("" for a parentless space).
LogSpace(owner, name, parent) == [owner |-> owner, name |-> name, parent |-> parent]

\* The spaces the callers choose from: the closet of each owner, a drawer
\* in the dresser and a drawer of the same name in the closet, and a space
\* whose name is not set.
LogSpaces ==
    {LogSpace("hanna", "closet", ""), LogSpace("cat", "closet", ""),
     LogSpace("hanna", "drawer 1", "dresser"),
     LogSpace("hanna", "drawer 1", "closet"),
     LogSpace("hanna", "", "")}

LogLogMissing == "thisItem or currentSpace don't exist"
LogLogOwners == "thisItem and currentSpace don't have the same owner"
LogLogExists == "thisItem already has a log"
LogPlaceMissing == "linkItem or linkSpace don't exist"
LogPlaceSame == "no changes necessary"
LogDeleteNone == "no log with this item exists"

\* log.thisItem.owner.username == item.owner.username &&
\* log.thisItem.name == item.name
SameItem(a, b) == a.owner = b.owner /\ a.name = b.name

\* The comparison of the names reversed.
SameSpaceOtherName(a, b) == a.owner = b.owner /\ a.name # b.name

\* log.currentSpace.owner.username == linkSpace.owner.username &&
\* log.currentSpace.name == linkSpace.name
SameSpace(a, b) == a.owner = b.owner /\ a.name = b.name

\* The loop looking at the first log only.
LogIndexFirstOnly(logs, item) ==
    IF Len(logs) > 0 /\ SameItem(logs[1].thisItem, item) THEN 1 ELSE 0

\* for (const log of this.locationLogs) if (<log is of item>) ...: the
\* place of the first log of the item, 0 when the loop ends without one.
LogIndex(logs, item) ==
    IF \E i \in 1..Len(logs) : SameItem(logs[i].thisItem, item)
    THEN CHOOSE i \in 1..Len(logs) :
            /\ SameItem(logs[i].thisItem, item)
            /\ \A j \in 1..(i - 1) : ~SameItem(logs[j].thisItem, item)
    ELSE 0

\* this.locationLogs.filter((l) => l !== log), log being the one at place i
RemoveLog(logs, i) ==
    SubSeq(logs, 1, i - 1) \o SubSeq(logs, i + 1, Len(logs))

\* The object literal createLog builds.
NewLog(thisItem, currentSpace) ==
    [thisItem |-> thisItem, currentSpace |-> currentSpace,
     locationHistory |-> <<currentSpace>>]

\* The lines createLog writes before its loop, when it goes on: the owner
\* test logs and does not return.
OwnerLines(thisItem, currentSpace) ==
    IF thisItem.owner # currentSpace.owner THEN <<LogLogOwners>> ELSE <<>>

LogCall(op, item, space, lines, returned) ==
    [op |-> op, item |-> item, space |-> space, lines |-> lines,
     returned |-> returned]

\* The observer of the log store, as Observed above.
ObservedLog(call) ==
    \/ lastLog' = call /\ preLog' = locationLogs
    \/ UNCHANGED <<lastLog, preLog>>

createLog(thisItem, currentSpace) ==
    LET call(lines, returned) ==
            LogCall("createLog", thisItem, currentSpace, lines, returned)
    IN
    IF thisItem.name = "" \/ currentSpace.name = ""
    THEN ObservedLog(call(<<LogLogMissing>>, FALSE)) /\ UNCHANGED locationLogs
    ELSE IF LogIndex(locationLogs, thisItem) # 0
    THEN /\ ObservedLog(call(OwnerLines(thisItem, currentSpace)
                                \o <<LogLogExists>>, FALSE))
         /\ UNCHANGED locationLogs
    ELSE /\ Len(locationLogs) < MaxLogs
         /\ locationLogs' = Append(locationLogs, NewLog(thisItem, currentSpace))
         /\ ObservedLog(call(OwnerLines(thisItem, currentSpace), TRUE))

\* The push with the history started afresh.
MovedForgetting(log, linkSpace) ==
    [log EXCEPT !.locationHistory = <<linkSpace>>, !.currentSpace = linkSpace]

\* The push without the assignment to currentSpace.
MovedKeepingCurrent(log, linkSpace) ==
    [log EXCEPT !.locationHistory = Append(@, linkSpace)]

\* log.locationHistory.push(linkSpace); log.currentSpace = linkSpace
Moved(log, linkSpace) ==
    [log EXCEPT !.locationHistory = Append(@, linkSpace),
                !.currentSpace = linkSpace]

\* The store placeItem leaves.  Without a log of the item it calls
\* createLog(linkItem, linkSpace): both names are set and the item has no
\* log, so createLog goes to its push.
Placed(logs, linkItem, linkSpace) ==
    LET i == LogIndex(logs, linkItem) IN
    IF linkItem.name = "" \/ linkSpace.name = "" THEN logs
    ELSE IF i # 0
    THEN IF SameSpace(logs[i].currentSpace, linkSpace) THEN logs
         ELSE [logs EXCEPT ![i] = Moved(@, linkSpace)]
    ELSE Append(logs, NewLog(linkItem, linkSpace))

\* The lines placeItem writes, those of its call of createLog with them.
PlaceLines(logs, linkItem, linkSpace) ==
    LET i == LogIndex(logs, linkItem) IN
    IF linkItem.name = "" \/ linkSpace.name = "" THEN <<LogPlaceMissing>>
    ELSE IF i # 0
    THEN IF SameSpace(logs[i].currentSpace, linkSpace) THEN <<LogPlaceSame>>
         ELSE <<>>
    ELSE OwnerLines(linkItem, linkSpace)

placeItem(linkItem, linkSpace) ==
    /\ \A i \in 1..Len(Placed(locationLogs, linkItem, linkSpace)) :
            Len(Placed(locationLogs, linkItem, linkSpace)[i].locationHistory)
                <= MaxHistory
    /\ Len(Placed(locationLogs, linkItem, linkSpace)) <= MaxLogs
    /\ locationLogs' = Placed(locationLogs, linkItem, linkSpace)
    /\ ObservedLog(LogCall("placeItem", linkItem, linkSpace,
                           PlaceLines(locationLogs, linkItem, linkSpace), FALSE))

\* The body of the loop returns in its first round: either the first log
\* is the one of currItem and is filtered out, or the line is logged.
deleteLog(currItem) ==
    LET call(lines) ==
            LogCall("deleteLog", currItem, LogSpace("", "", ""), lines, FALSE)
    IN
    IF Len(locationLogs) = 0
    THEN ObservedLog(call(<<>>)) /\ UNCHANGED locationLogs
    ELSE IF SameItem(locationLogs[1].thisItem, currItem)
    THEN /\ locationLogs' = RemoveLog(locationLogs, 1)
         /\ ObservedLog(call(<<>>))
    ELSE ObservedLog(call(<<LogDeleteNone>>)) /\ UNCHANGED locationLogs

\* No call of the log store has been recorded yet.
UnobservedLog == lastLog.op = "new"

NextLog ==
    \/ \E thisItem \in LogItems, currentSpace \in LogSpaces :
            /\ UnobservedLog /\ createLog(thisItem, currentSpace)
            /\ UNCHANGED <<vars, itemVars, userVars>>
    \/ \E linkItem \in LogItems, linkSpace \in LogSpaces :
            /\ UnobservedLog /\ placeItem(linkItem, linkSpace)
            /\ UNCHANGED <<vars, itemVars, userVars>>
    \/ \E currItem \in LogItems :
            /\ UnobservedLog /\ deleteLog(currItem)
            /\ UNCHANGED <<vars, itemVars, userVars>>

SpecLog == Init /\ [][NextLog]_<<vars, logVars>>

----------------------------------------------------------------------------
(* The item store (class Items).                                           *)
(*                                                                         *)
(* An Item is a JavaScript object; the store keeps references in the array *)
(* `items`.  An optional parameter has the default "", and the class tests *)
(* `if (name)`, `if (description)`, `if (category)`: the empty string is   *)
(* the parameter left out.                                                 *)

\* Number of Item objects the model lets createItem allocate.
MaxItems == 2

ItemStoreNames == {"", "cat sweater", "kitty sweater"}
Descriptions == {"", "grey with white cat"}
Categories == {"", "clothes"}

ItemRefs == DOMAIN itemHeap

LogItemExists == "item already exists in user's inventory"
LogItemNotOwned == "item does not belong to this user"
LogItemMissing == "item does not exist"
LogItemNotOwnedUpdate == "item does not belong to user"
LogItemNameExists == "item name already exists in user's inventory"

\* The object literal createItem builds.
NewItem(owner, name, description, category) ==
    [owner |-> owner, name |-> name, description |-> description,
     category |-> category]

\* Items.equals: by value, not by reference
ItemEquals(a, b) ==
    /\ a.owner = b.owner
    /\ a.name = b.name
    /\ a.description = b.description
    /\ a.category = b.category

\* for (const item of this.items)
\*   if (item.owner.username == owner.username && item.name == name) ...
ItemNameTaken(h, its, owner, name) ==
    \E i \in 1..Len(its) : h[its[i]].owner = owner /\ h[its[i]].name = name

\* The loop with the test of the owner reversed.
DuplicateNameOtherOwner(h, its, owner, item, name) ==
    \E i \in 1..Len(its) :
        /\ ~ItemEquals(h[its[i]], h[item])
        /\ h[its[i]].owner # owner
        /\ h[its[i]].name = name

\* for (const currItem of this.items)
\*   if (!this.equals(currItem, item) &&
\*       currItem.owner.username === owner.username &&
\*       currItem.name === name) { duplicate_name = true; break; }
DuplicateName(h, its, owner, item, name) ==
    \E i \in 1..Len(its) :
        /\ ~ItemEquals(h[its[i]], h[item])
        /\ h[its[i]].owner = owner
        /\ h[its[i]].name = name

\* The category written to the description.
WithDetailsCrossed(it, description, category) ==
    [it EXCEPT !.description = IF category # "" THEN category ELSE @,
               !.category = IF category # "" THEN category ELSE @]

\* if (description) item.description = description;
\* if (category) item.category = category;
WithDetails(it, description, category) ==
    [it EXCEPT !.description = IF description # "" THEN description ELSE @,
               !.category = IF category # "" THEN category ELSE @]

\* if (name) { ... if (!duplicate_name) item.name = name; }
WithName(h, its, owner, item, name) ==
    IF name # "" /\ ~DuplicateName(h, its, owner, item, name)
    THEN [h[item] EXCEPT !.name = name]
    ELSE h[item]

ItemCall(op, owner, item, name, description, category, lines, ret) ==
    [op |-> op, owner |-> owner, item |-> item, name |-> name,
     description |-> description, category |-> category, lines |-> lines,
     ret |-> ret]

\* The observer of the item store, as Observed above.
ObservedItem(call) ==
    \/ lastItem' = call /\ preItem' = [itemHeap |-> itemHeap, items |-> items]
    \/ UNCHANGED <<lastItem, preItem>>

createItem(owner, name, description, category) ==
    LET call(lines, ret) ==
            ItemCall("createItem", owner, Null, name, description, category,
                     lines, ret)
    IN
    IF ItemNameTaken(itemHeap, items, owner, name)
    THEN ObservedItem(call(<<LogItemExists>>, Null)) /\ UNCHANGED <<itemHeap, items>>
    ELSE /\ Len(itemHeap) < MaxItems
         /\ itemHeap' = Append(itemHeap, NewItem(owner, name, description, category))
         /\ items' = Append(items, Len(itemHeap) + 1)
         /\ ObservedItem(call(<<>>, Len(itemHeap) + 1))

deleteItem(owner, item) ==
    LET call(lines) == ItemCall("deleteItem", owner, item, "", "", "", lines, Null) IN
    IF itemHeap[item].owner # owner
    THEN ObservedItem(call(<<LogItemNotOwned>>)) /\ UNCHANGED <<itemHeap, items>>
    ELSE IF ~Includes(items, item)
    THEN ObservedItem(call(<<LogItemMissing>>)) /\ UNCHANGED <<itemHeap, items>>
    ELSE /\ items' = Without(items, item)
         /\ UNCHANGED itemHeap
         /\ ObservedItem(call(<<>>))

updateItemDetails(owner, item, name, description, category) ==
    LET call(lines) ==
            ItemCall("updateItemDetails", owner, item, name, description,
                     category, lines, Null)
    IN
    IF ~Includes(items, item)
    THEN ObservedItem(call(<<LogItemMissing>>)) /\ UNCHANGED <<itemHeap, items>>
    ELSE IF itemHeap[item].owner # owner
    THEN ObservedItem(call(<<LogItemNotOwnedUpdate>>))
         /\ UNCHANGED <<itemHeap, items>>
    ELSE /\ itemHeap' =
                [itemHeap EXCEPT ![item] =
                    WithDetails(WithName(itemHeap, items, owner, item, name),
                                description, category)]
         /\ UNCHANGED items
         /\ ObservedItem(call(
                IF name # "" /\ DuplicateName(itemHeap, items, owner, item, name)
                THEN <<LogItemNameExists>> ELSE <<>>))

\* No call of the item store has been recorded yet.
UnobservedItem == lastItem.op = "new"

NextItem ==
    \/ \E owner \in Users, name \in ItemStoreNames,
          description \in Descriptions, category \in Categories :
            /\ UnobservedItem /\ createItem(owner, name, description, category)
            /\ UNCHANGED <<vars, logVars, userVars>>
    \/ \E owner \in Users, item \in ItemRefs :
            /\ UnobservedItem /\ deleteItem(owner, item)
            /\ UNCHANGED <<vars, logVars, userVars>>
    \/ \E owner \in Users, item \in ItemRefs, name \in ItemStoreNames,
          description \in Descriptions, category \in Categories :
            /\ UnobservedItem
            /\ updateItemDetails(owner, item, name, description, category)
            /\ UNCHANGED <<vars, logVars, userVars>>

SpecItem == Init /\ [][NextItem]_<<vars, logVars, itemVars, userVars>>

----------------------------------------------------------------------------
(* The user store (class Users).                                           *)

\* The class takes any string for a username, the empty one too.
Usernames == Users \cup {""}
Passwords == {"asdf123", "asdf321"}

LogUserExists == "user with username already exists"
LogAuthSuccess == "success"
LogAuthWrong == "wrong password, try again"
LogAuthMissing == "user not found"

\* The loop looking at the first user only.
UsernameIndexFirstOnly(us, username) ==
    IF Len(us) > 0 /\ us[1].username = username THEN 1 ELSE 0

\* for (const user of this.users) if (user.username == username) ...: the
\* place of the first user of that name, 0 when the loop ends without one.
UsernameIndex(us, username) ==
    IF \E i \in 1..Len(us) : us[i].username = username
    THEN CHOOSE i \in 1..Len(us) :
            /\ us[i].username = username
            /\ \A j \in 1..(i - 1) : us[j].username # username
    ELSE 0

\* The object literal registerUser builds.
NewUser(username, password) == [username |-> username, password |-> password]

UserCall(op, username, password, line, returned) ==
    [op |-> op, username |-> username, password |-> password, line |-> line,
     returned |-> returned]

\* The observer of the user store, as Observed above.
ObservedUser(call) ==
    \/ lastUser' = call /\ preUser' = users
    \/ UNCHANGED <<lastUser, preUser>>

registerUser(username, password) ==
    IF UsernameIndex(users, username) # 0
    THEN /\ ObservedUser(UserCall("registerUser", username, password,
                                  LogUserExists, FALSE))
         /\ UNCHANGED users
    ELSE /\ users' = Append(users, NewUser(username, password))
         /\ ObservedUser(UserCall("registerUser", username, password, NoLog, TRUE))

authenticateUser(username, password) ==
    LET i == UsernameIndex(users, username) IN
    /\ ObservedUser(UserCall("authenticateUser", username, password,
            IF i = 0 THEN LogAuthMissing
            ELSE IF users[i].password = password THEN LogAuthSuccess
            ELSE LogAuthWrong,
            FALSE))
    /\ UNCHANGED users

\* No call of the user store has been recorded yet.
UnobservedUser == lastUser.op = "new"

NextUser ==
    \/ \E username \in Usernames, password \in Passwords :
            /\ UnobservedUser /\ registerUser(username, password)
            /\ UNCHANGED <<vars, logVars, itemVars>>
    \/ \E username \in Usernames, password \in Passwords :
            /\ UnobservedUser /\ authenticateUser(username, password)
            /\ UNCHANGED <<vars, logVars, itemVars>>

SpecUser == Init /\ [][NextUser]_<<vars, logVars, itemVars, userVars>>

----------------------------------------------------------------------------
(* Vocabulary of the properties.  A store state is a heap with a           *)
(* collection; the properties read the current one and the one the         *)
(* observed call started from.                                             *)

\* The spaces in the collection.
Live(sp) == {sp[i] : i \in 1..Len(sp)}

\* The spaces of the collection whose parent pointer is p (Null: the roots).
\* The parent pointer is the authority, the children arrays are a cache.
ChildrenByParent(h, sp, p) == {s \in Live(sp) : h[s].parent = p}

\* Number of places of s in the array arr.
Occurrences(arr, s) == Cardinality({i \in 1..Len(arr) : arr[i] = s})

\* Following parent pointers from s ends at a root within n steps.
RECURSIVE ChainReachesRoot(_, _, _)
ChainReachesRoot(h, s, n) ==
    IF s = Null THEN TRUE
    ELSE IF n = 0 THEN FALSE
    ELSE ChainReachesRoot(h, h[s].parent, n - 1)

\* a is s or an ancestor of s: a is met following parent pointers from s.
RECURSIVE OnChain(_, _, _, _)
OnChain(h, a, s, n) ==
    IF s = Null THEN FALSE
    ELSE IF s = a THEN TRUE
    ELSE IF n = 0 THEN FALSE
    ELSE OnChain(h, a, h[s].parent, n - 1)

\* The failure kinds of the specification, by the line the class logs.
NameConflict == {LogCreateExists, LogMoveExists, LogRenameChild, LogRenameRoot}
NotFound == {LogMoveMissing, LogMissing}
OwnershipMismatch == {LogMoveOwner, LogOwner}
NotEmpty == {LogDeleteNonEmpty}

Succeeded == last.op # "new" /\ last.log = NoLog
Failed == last.op # "new" /\ last.log # NoLog
NoMutation == heap = pre.heap /\ spaces = pre.spaces

----------------------------------------------------------------------------
\* C1 (I1, sibling name uniqueness): in every reachable state no two
\* distinct spaces of the collection with the same owner and the same
\* parent (or both parentless) have the same name.
SiblingNamesUnique ==
    \A s1, s2 \in Live(spaces) :
        (/\ s1 # s2
         /\ heap[s1].owner = heap[s2].owner
         /\ heap[s1].parent = heap[s2].parent)
        => heap[s1].name # heap[s2].name

\* Two siblings under one parent, one of them just refused the name of
\* the other by renameSpace.
SiblingNamesUniqueWitness ==
    /\ last.op = "renameSpace"
    /\ last.log = LogRenameChild
    /\ \E s2 \in Live(spaces) \ {last.space} :
        /\ heap[s2].parent = heap[last.space].parent
        /\ heap[s2].owner = heap[last.space].owner
        /\ heap[s2].name = last.name

\* C2 (I3, acyclicity): in every reachable state the parent pointers of
\* the spaces of the collection lead to a parentless root in finitely many
\* steps, never back to the space they started from.
ParentRelationIsForest ==
    \A s \in Live(spaces) : ChainReachesRoot(heap, s, Len(heap))

\* C3: moveSpace whose newParent is space itself or a descendant of space
\* fails and leaves every space and the collection as they were.
MoveIntoOwnSubtreeRejected ==
    (/\ last.op = "moveSpace"
     /\ OnChain(pre.heap, last.space, last.target, Len(pre.heap)))
    => Failed /\ NoMutation

\* C4: the children arrays agree with the parent pointers: for spaces P and
\* S of the collection, S is in P.children exactly when S.parent is P, and
\* at most once.
ChildrenAgreeWithParents ==
    \A p, s \in Live(spaces) :
        /\ Includes(heap[p].children, s) <=> heap[s].parent = p
        /\ Occurrences(heap[p].children, s) <= 1

\* A space was moved from one parent of the collection to another, both
\* arrays were rewritten.
ChildrenAgreeWithParentsWitness ==
    /\ last.op = "moveSpace"
    /\ Succeeded
    /\ pre.heap[last.space].parent # Null
    /\ pre.heap[last.space].parent # last.target
    /\ pre.heap[last.space].parent \in Live(spaces)
    /\ Len(heap[pre.heap[last.space].parent].children) > 0

\* C5: createSpace with a name a space of the same sibling set already has
\* (the children of parent, or the owner's parentless spaces when there is
\* no parent) returns no space and changes nothing.
CreateDuplicateRejected ==
    (/\ last.op = "createSpace"
     /\ \E s \in ChildrenByParent(pre.heap, pre.spaces, last.target) :
            /\ pre.heap[s].name = last.name
            /\ last.target = Null => pre.heap[s].owner = last.owner)
    => last.ret = Null /\ NoMutation

\* The test's case: a parent with two children, and a third createSpace
\* under it with the name of one of them was refused.
CreateDuplicateRejectedWitness ==
    /\ last.op = "createSpace"
    /\ last.target # Null
    /\ last.ret = Null
    /\ Len(heap[last.target].children) = 2
    /\ \E s \in ChildrenByParent(heap, spaces, last.target) :
            heap[s].name = last.name

\* C6: with a parent of the collection given, createSpace succeeds whenever
\* no child of that parent has the name, whatever the owner's parentless
\* spaces are called and whether or not the parent ever had a child.
CreateJudgedAgainstChildrenOnly ==
    (/\ last.op = "createSpace"
     /\ last.target \in Live(pre.spaces)
     /\ \A s \in ChildrenByParent(pre.heap, pre.spaces, last.target) :
            pre.heap[s].name # last.name)
    => last.ret # Null

\* C7: createSpace under a parent of another owner is rejected without
\* mutation, so every space of the collection that has a parent has the
\* owner of that parent.
CreateUnderForeignParentRejected ==
    /\ (/\ last.op = "createSpace"
        /\ last.target # Null
        /\ pre.heap[last.target].owner # last.owner)
       => last.ret = Null /\ NoMutation
    /\ \A s \in Live(spaces) :
        heap[s].parent # Null => heap[heap[s].parent].owner = heap[s].owner

\* C8: createSpace under a parent that is not in the collection is
\* rejected, so the parent of every space of the collection is absent or
\* in the collection.
CreateUnderMissingParentRejected ==
    /\ (/\ last.op = "createSpace"
        /\ last.target # Null
        /\ last.target \notin Live(pre.spaces))
       => last.ret = Null /\ NoMutation
    /\ \A s \in Live(spaces) :
        heap[s].parent # Null => heap[s].parent \in Live(spaces)

\* C9: after a successful moveSpace(owner, space, newParent) the collection
\* has as many spaces as before, space.parent is newParent, space is in
\* newParent.children and no longer in the children of its previous parent,
\* space is in the children of exactly one space, and the name, owner and
\* parent of every other space are as before.
MoveEffect ==
    (last.op = "moveSpace" /\ Succeeded) =>
        LET s == last.space
            np == last.target
            old == pre.heap[s].parent
        IN  /\ Len(spaces) = Len(pre.spaces)
            /\ Live(spaces) = Live(pre.spaces)
            /\ heap[s].parent = np
            /\ Includes(heap[np].children, s)
            /\ (old # Null /\ old # np) => ~Includes(heap[old].children, s)
            /\ old # Null => Occurrences(heap[old].children, s) =
                                IF old = np THEN 1 ELSE 0
            /\ Cardinality({p \in Refs : Includes(heap[p].children, s)}) = 1
            /\ Occurrences(heap[np].children, s) = 1
            /\ \A o \in Refs \ {s} :
                /\ heap[o].name = pre.heap[o].name
                /\ heap[o].owner = pre.heap[o].owner
                /\ heap[o].parent = pre.heap[o].parent

\* A space left one parent for another one, three spaces in all.
MoveEffectWitness ==
    /\ last.op = "moveSpace"
    /\ Succeeded
    /\ pre.heap[last.space].parent \notin {Null, last.target, last.space}
    /\ last.target # last.space
    /\ Includes(pre.heap[pre.heap[last.space].parent].children, last.space)

\* C10: moveSpace to a newParent that already has a child with the name of
\* space fails and changes nothing; with space and newParent in the
\* collection and owned by owner, the failure is the name conflict.
MoveDuplicateRejected ==
    (/\ last.op = "moveSpace"
     /\ \E c \in ChildrenByParent(pre.heap, pre.spaces, last.target) :
            pre.heap[c].name = pre.heap[last.space].name)
    => /\ Failed
       /\ NoMutation
       /\ (/\ {last.space, last.target} \subseteq Live(pre.spaces)
           /\ pre.heap[last.space].owner = last.owner
           /\ pre.heap[last.target].owner = last.owner)
          => last.log = LogMoveExists

\* The test's case: space has a parent, newParent another child of the
\* same name, and the call is refused for it.
MoveDuplicateRejectedWitness ==
    /\ last.op = "moveSpace"
    /\ last.log = LogMoveExists
    /\ heap[last.space].parent \notin {Null, last.target}
    /\ \E c \in ChildrenByParent(heap, spaces, last.target) :
            c # last.space /\ heap[c].name = heap[last.space].name

\* C11 (ownership enforcement): moveSpace, renameSpace and deleteSpace on
\* a space of the collection (moveSpace: with newParent in the collection
\* too) called with an owner that is not the owner of the space (moveSpace:
\* or not the owner of newParent) fail with OwnershipMismatch and change
\* no space and not the collection.
ForeignOwnerRejected ==
    (/\ last.op \in {"moveSpace", "renameSpace", "deleteSpace"}
     /\ last.space \in Live(pre.spaces)
     /\ last.op = "moveSpace" => last.target \in Live(pre.spaces)
     /\ \/ pre.heap[last.space].owner # last.owner
        \/ last.op = "moveSpace" /\ pre.heap[last.target].owner # last.owner)
    => last.log \in OwnershipMismatch /\ NoMutation

\* The owner owns the space moved, not the newParent, which has no child
\* of that name.
ForeignOwnerRejectedWitness ==
    /\ last.op = "moveSpace"
    /\ last.log = LogMoveOwner
    /\ heap[last.space].owner = last.owner
    /\ heap[last.target].owner # last.owner
    /\ last.space # last.target
    /\ ~MoveConflict(heap, last.space, last.target)

\* C12 (I4, delete requires empty): deleteSpace on a space with one or
\* more children fails and leaves the collection and every space as they
\* were; called by the owner on a space of the collection the failure is
\* NotEmpty.
DeleteNonEmptyRejected ==
    (/\ last.op = "deleteSpace"
     /\ ChildrenByParent(pre.heap, pre.spaces, last.space) # {})
    => /\ Failed
       /\ NoMutation
       /\ (/\ last.space \in Live(pre.spaces)
           /\ pre.heap[last.space].owner = last.owner)
          => last.log \in NotEmpty

\* The test's case: the owner deletes a space that has exactly one child,
\* another space.
DeleteNonEmptyRejectedWitness ==
    /\ last.op = "deleteSpace"
    /\ last.log = LogDeleteNonEmpty
    /\ Len(heap[last.space].children) = 1
    /\ heap[last.space].children[1] # last.space

\* C13: deleteSpace by the owner on a childless space of the collection
\* removes that space, and nothing else, from the collection and from the
\* children of its parent, and changes no other space; a parent whose last
\* child went that way passes the emptiness test of deleteSpace itself.
DeleteEffect ==
    (/\ last.op = "deleteSpace"
     /\ last.space \in Live(pre.spaces)
     /\ pre.heap[last.space].owner = last.owner
     /\ ChildrenByParent(pre.heap, pre.spaces, last.space) = {})
    => LET s == last.space
           p == pre.heap[s].parent
       IN  /\ Succeeded
           /\ Live(spaces) = Live(pre.spaces) \ {s}
           /\ Len(spaces) = Len(pre.spaces) - 1
           /\ \A i, j \in 1..Len(spaces) : i # j => spaces[i] # spaces[j]
           /\ \A o \in Refs \ {p} : heap[o] = pre.heap[o]
           /\ p # Null =>
                /\ ~Includes(heap[p].children, s)
                /\ Live(heap[p].children) = Live(pre.heap[p].children) \ {s}
                /\ [heap[p] EXCEPT !.children = <<>>] =
                        [pre.heap[p] EXCEPT !.children = <<>>]
                /\ ChildrenByParent(pre.heap, pre.spaces, p) = {s}
                        => ~HasChildren(heap, p)

\* A parent whose children array was emptied by an earlier deleteSpace is
\* deleted in its turn.
DeleteEffectWitness ==
    /\ last.op = "deleteSpace"
    /\ Succeeded
    /\ pre.heap[last.space].hasChildren
    /\ \E c \in Refs : heap[c].parent = last.space

\* C14: renameSpace by the owner to the name the space has already
\* succeeds, with or without a parent.
RenameToOwnNameSucceeds ==
    (/\ last.op = "renameSpace"
     /\ last.space \in Live(pre.spaces)
     /\ pre.heap[last.space].owner = last.owner
     /\ pre.heap[last.space].name = last.name)
    => Succeeded

\* C15: renameSpace to a name another space of the same sibling set has
\* (same parent; for a parentless space the parentless spaces of the
\* owner) fails and leaves every name unchanged; called by the owner on a
\* space of the collection the failure is NameConflict.
RenameDuplicateRejected ==
    (/\ last.op = "renameSpace"
     /\ \E o \in ChildrenByParent(pre.heap, pre.spaces,
                                  pre.heap[last.space].parent) \ {last.space} :
            /\ pre.heap[o].name = last.name
            /\ pre.heap[last.space].parent = Null
                    => pre.heap[o].owner = pre.heap[last.space].owner)
    => /\ Failed
       /\ \A o \in Refs : heap[o].name = pre.heap[o].name
       /\ (/\ last.space \in Live(pre.spaces)
           /\ pre.heap[last.space].owner = last.owner)
          => last.log \in NameConflict

\* A parentless space is refused the name of another parentless space of
\* its owner.
RenameDuplicateRejectedWitness ==
    /\ last.op = "renameSpace"
    /\ last.log = LogRenameRoot
    /\ heap[last.space].name # last.name
    /\ \E o \in ChildrenByParent(heap, spaces, Null) \ {last.space} :
            heap[o].name = last.name /\ heap[o].owner = last.owner

\* C16: a successful renameSpace changes the name of space and nothing
\* else: the collection, the parent pointers, the children arrays and the
\* names of the other spaces are as before.
RenameEffect ==
    (last.op = "renameSpace" /\ Succeeded) =>
        /\ spaces = pre.spaces
        /\ heap[last.space].name = last.name
        /\ \A o \in Refs :
            /\ heap[o].parent = pre.heap[o].parent
            /\ heap[o].hasChildren = pre.heap[o].hasChildren
            /\ heap[o].children = pre.heap[o].children
            /\ heap[o].owner = pre.heap[o].owner
            /\ o # last.space => heap[o].name = pre.heap[o].name

\* A child was renamed while another space had its old name.
RenameEffectWitness ==
    /\ last.op = "renameSpace"
    /\ Succeeded
    /\ pre.heap[last.space].parent # Null
    /\ pre.heap[last.space].name # last.name
    /\ \E o \in Live(spaces) \ {last.space} :
            heap[o].name = pre.heap[last.space].name

\* C17 (I2, ownership immutability): no call, successful or not, changes
\* the owner or the spaceType of a space that exists.
OwnerAndTypeNeverChange ==
    [][\A s \in DOMAIN heap :
            /\ heap'[s].owner = heap[s].owner
            /\ heap'[s].spaceType = heap[s].spaceType]_vars

\* A space with a parent was renamed, after its parent was deleted or got
\* a second child.
OwnerAndTypeNeverChangeWitness ==
    /\ last.op = "renameSpace"
    /\ Succeeded
    /\ heap[last.space].parent # Null
    /\ ~Includes(spaces, heap[last.space].parent)
                \/ Len(heap[heap[last.space].parent].children) = 2

ParentNeverCleared ==
    [][\A s \in Live(spaces) \cap Live(spaces') :
            heap[s].parent # Null => heap'[s].parent # Null]_vars

\* A space left its parent for a parentless space.
ParentNeverClearedWitness ==
    /\ last.op = "moveSpace"
    /\ Succeeded
    /\ pre.heap[last.space].parent \notin {Null, last.space, last.target}
    /\ last.target # last.space
    /\ heap[last.target].parent = Null
    /\ last.space \in Live(spaces)

----------------------------------------------------------------------------
(* The location log store.                                                 *)

\* The places of the logs of an item in a store.
LogsOf(logs, item) == {i \in 1..Len(logs) : SameItem(logs[i].thisItem, item)}

\* C19: createLog with an item and a space of different owners creates no
\* log: it returns nothing and the store is as before.
CreateLogForeignSpaceRejected ==
    (/\ lastLog.op = "createLog"
     /\ lastLog.item.owner # lastLog.space.owner)
    => ~lastLog.returned /\ locationLogs = preLog

\* C20: in every reachable state an item, identified by owner and name,
\* has at most one log; createLog for an item that has a log returns
\* nothing and leaves the store, that log with it, as it was.
OneLogPerItem ==
    /\ \A i, j \in 1..Len(locationLogs) :
            SameItem(locationLogs[i].thisItem, locationLogs[j].thisItem)
                => i = j
    /\ (lastLog.op = "createLog" /\ LogsOf(preLog, lastLog.item) # {})
        => ~lastLog.returned /\ locationLogs = preLog

\* The test's case, behind another log: the item has a log, the second in
\* the store, and createLog with another space was refused for it.
OneLogPerItemWitness ==
    /\ lastLog.op = "createLog"
    /\ ~lastLog.returned
    /\ Len(locationLogs) = 2
    /\ SameItem(locationLogs[2].thisItem, lastLog.item)
    /\ ~SameSpace(locationLogs[2].currentSpace, lastLog.space)
    /\ lastLog.space.owner = lastLog.item.owner
    /\ Len(locationLogs[2].locationHistory) = 2

\* a is the beginning of b.
IsPrefix(a, b) == Len(a) <= Len(b) /\ SubSeq(b, 1, Len(a)) = a

\* C21: placeItem with an item and a space that exist: without a log of
\* the item, a log is created with currentSpace linkSpace and
\* locationHistory [linkSpace]; with a log whose current space is another
\* space than linkSpace, whichever two spaces they are, linkSpace is
\* appended to locationHistory and becomes currentSpace.
PlaceItemEffect ==
    (/\ lastLog.op = "placeItem"
     /\ lastLog.item.name # ""
     /\ lastLog.space.name # "")
    => LET was == LogsOf(preLog, lastLog.item)
           now == LogsOf(locationLogs, lastLog.item)
       IN  IF was = {}
           THEN \E j \in now :
                    /\ locationLogs[j].currentSpace = lastLog.space
                    /\ locationLogs[j].locationHistory = <<lastLog.space>>
           ELSE \A i \in was :
                    preLog[i].currentSpace # lastLog.space =>
                        \E j \in now :
                            /\ locationLogs[j].currentSpace = lastLog.space
                            /\ locationLogs[j].locationHistory =
                                    Append(preLog[i].locationHistory, lastLog.space)

\* C22: placeItem into the space that is the current space of the item's
\* log leaves the store as it was, and placeItem(item, s) once more after
\* any placeItem(item, s) leaves the store the first call left.
PlaceItemIdempotent ==
    lastLog.op = "placeItem" =>
        /\ (\E i \in LogsOf(preLog, lastLog.item) :
                preLog[i].currentSpace = lastLog.space)
            => locationLogs = preLog
        /\ Placed(locationLogs, lastLog.item, lastLog.space) = locationLogs

\* The test's case after a move: the item was placed into a second space,
\* and placed into that space again.
PlaceItemIdempotentWitness ==
    /\ lastLog.op = "placeItem"
    /\ lastLog.lines = <<LogPlaceSame>>
    /\ \E i \in LogsOf(locationLogs, lastLog.item) :
        /\ locationLogs[i].currentSpace = lastLog.space
        /\ Len(locationLogs[i].locationHistory) = 2

\* C23: the location history of an item is append-only: a call of
\* createLog, placeItem or deleteLog, for this item or another, that
\* leaves the item with a log leaves it a locationHistory that begins with
\* the one before the call.
HistoryAppendOnly ==
    [][\A i \in 1..Len(locationLogs), j \in 1..Len(locationLogs') :
            SameItem(locationLogs[i].thisItem, locationLogs'[j].thisItem)
                => IsPrefix(locationLogs[i].locationHistory,
                            locationLogs'[j].locationHistory)]_logVars

\* A third space was pushed to the history of an item, behind the log of
\* another item.
HistoryAppendOnlyWitness ==
    /\ lastLog.op = "placeItem"
    /\ Len(locationLogs) = 2
    /\ Len(preLog) = 2
    /\ SameItem(locationLogs[2].thisItem, lastLog.item)
    /\ Len(preLog[2].locationHistory) = 2
    /\ Len(locationLogs[2].locationHistory) = 3

\* C24: deleteLog for an item that has a log removes that log, wherever it
\* is in the store, and leaves the logs of the other items as they were;
\* for an item without a log it changes nothing.
DeleteLogEffect ==
    lastLog.op = "deleteLog" =>
        /\ LogsOf(locationLogs, lastLog.item) = {}
        /\ locationLogs =
                SelectSeq(preLog, LAMBDA l : ~SameItem(l.thisItem, lastLog.item))

\* C28: in every reachable state each log has a locationHistory that is
\* not empty and ends with the currentSpace of the log.
HistoryEndsAtCurrentSpace ==
    \A i \in 1..Len(locationLogs) :
        LET log == locationLogs[i] IN
        /\ Len(log.locationHistory) > 0
        /\ log.locationHistory[Len(log.locationHistory)] = log.currentSpace

\* An item came back to the space it was in first.
HistoryEndsAtCurrentSpaceWitness ==
    /\ lastLog.op = "placeItem"
    /\ \E i \in LogsOf(locationLogs, lastLog.item) :
        /\ Len(locationLogs[i].locationHistory) = 3
        /\ locationLogs[i].locationHistory[1] = lastLog.space
        /\ locationLogs[i].locationHistory[2] # lastLog.space
        /\ Len(preLog[i].locationHistory) = 2

\* C29: in every reachable state the item of a log has the owner of the
\* currentSpace of the log and of every space of its locationHistory.
LogOwnersAgree ==
    \A i \in 1..Len(locationLogs) :
        LET log == locationLogs[i] IN
        /\ log.currentSpace.owner = log.thisItem.owner
        /\ \A k \in 1..Len(log.locationHistory) :
                log.locationHistory[k].owner = log.thisItem.owner

----------------------------------------------------------------------------
(* The item store.                                                         *)

\* An item of the collection its, other than item, has the owner and the
\* name.
NameUsedByOther(h, its, owner, item, name) ==
    \E o \in Live(its) \ {item} : h[o].owner = owner /\ h[o].name = name

\* C25: in every reachable state no two items of the collection with the
\* same owner have the same name; createItem with a name an item of the
\* owner has returns nothing and leaves the collection and every item as
\* they were; with a name no item of the owner has, whatever the items of
\* other owners are called, it returns the new item.
ItemNamesUnique ==
    /\ \A i, j \in 1..Len(items) :
            (i # j /\ itemHeap[items[i]].owner = itemHeap[items[j]].owner)
                => itemHeap[items[i]].name # itemHeap[items[j]].name
    /\ lastItem.op = "createItem" =>
            IF NameUsedByOther(preItem.itemHeap, preItem.items, lastItem.owner,
                               Null, lastItem.name)
            THEN /\ lastItem.ret = Null
                 /\ items = preItem.items
                 /\ itemHeap = preItem.itemHeap
            ELSE /\ lastItem.ret # Null
                 /\ items = Append(preItem.items, lastItem.ret)
                 /\ itemHeap[lastItem.ret].owner = lastItem.owner
                 /\ itemHeap[lastItem.ret].name = lastItem.name

\* Two owners have an item of one name each, and a createItem with that
\* name was refused.
ItemNamesUniqueWitness ==
    /\ lastItem.op = "createItem"
    /\ lastItem.ret = Null
    /\ Len(items) = 2
    /\ itemHeap[items[1]].name = lastItem.name
    /\ itemHeap[items[2]].name = lastItem.name
    /\ itemHeap[items[1]].owner # itemHeap[items[2]].owner

\* C26: updateItemDetails by the owner on an item of the collection, with
\* a name another item of the owner has: the name and the owner of the
\* item stay, the description and the category given are written; with a
\* name that is free, name, description and category given are written and
\* the owner stays.  A parameter left out (the empty string) leaves its
\* field, and no call writes to another item or to the collection.
UpdateItemEffect ==
    (/\ lastItem.op = "updateItemDetails"
     /\ lastItem.item \in Live(preItem.items)
     /\ preItem.itemHeap[lastItem.item].owner = lastItem.owner)
    => LET old == preItem.itemHeap[lastItem.item]
           new == itemHeap[lastItem.item]
           taken == NameUsedByOther(preItem.itemHeap, preItem.items,
                                    lastItem.owner, lastItem.item, lastItem.name)
       IN  /\ new.owner = old.owner
           /\ new.name = IF lastItem.name # "" /\ ~taken
                         THEN lastItem.name ELSE old.name
           /\ new.description = IF lastItem.description # ""
                                THEN lastItem.description ELSE old.description
           /\ new.category = IF lastItem.category # ""
                             THEN lastItem.category ELSE old.category
           /\ items = preItem.items
           /\ \A o \in ItemRefs \ {lastItem.item} :
                    itemHeap[o] = preItem.itemHeap[o]

\* The test's case: the name is the one of another item of the owner, the
\* description and the category are new to the item.
UpdateItemEffectWitness ==
    /\ lastItem.op = "updateItemDetails"
    /\ lastItem.lines = <<LogItemNameExists>>
    /\ lastItem.description # ""
    /\ lastItem.category # ""
    /\ preItem.itemHeap[lastItem.item].description # lastItem.description
    /\ preItem.itemHeap[lastItem.item].category # lastItem.category
    /\ itemHeap[lastItem.item].name # lastItem.name

----------------------------------------------------------------------------
(* The user store.                                                         *)

\* C27: in every reachable state no two users have the same username;
\* registerUser with a username a user has returns no user and leaves the
\* users, the password of that user with them, as they were.
UsernamesUnique ==
    /\ \A i, j \in 1..Len(users) :
            users[i].username = users[j].username => i = j
    /\ (/\ lastUser.op = "registerUser"
        /\ \E i \in 1..Len(preUser) : preUser[i].username = lastUser.username)
       => ~lastUser.returned /\ users = preUser

\* The test's case behind another user: the username of the second user
\* was asked for again, with another password.
UsernamesUniqueWitness ==
    /\ lastUser.op = "registerUser"
    /\ ~lastUser.returned
    /\ Len(users) >= 2
    /\ users[2].username = lastUser.username
    /\ users[2].password # lastUser.password

====
